---- MODULE Spec2Model ----
(***************************************************************************)
(* celery-leased-beat: a beat scheduler that dispatches only while it      *)
(* holds a renewable, TTL-based Redis lock (LeasedSchedulerMixin).         *)
(*                                                                         *)
(* Two scheduler replicas share one lease key on one Redis backend.  Time  *)
(* is a discrete clock read by time.monotonic() and by the backend's key   *)
(* expiry alike (no clock skew); one call of tick() or close() is one      *)
(* step taken at one instant of that clock.                                *)
(***************************************************************************)
EXTENDS Integers, FiniteSets, Sequences, TLC

\* The replicas; a replica's name doubles as its lock token (_lease_lock_id).
Controllers == {"A", "B"}
NoToken == "none"

\* Bounds of the model.
MaxTime == 4
MaxFailoverTime == 7
MaxTTL == 4
MaxInterval == 3
MaxDelay == 3
MaxFailures == 3

VARIABLES
    now,                      \* the clock
    lease_url,                \* CELERY_LEASE_URL: "", "redis://" or "sentinel://"
    master_name,              \* CELERY_LEASE_OPTIONS names a master_name
    lease_lock_ttl,           \* CELERY_LEASE_LOCK_TTL
    lease_interval,           \* CELERY_LEASE_INTERVAL
    key_owner,                \* the token stored under the lease key, or NoToken
    key_expiry,               \* the instant the key expires (0 when absent)
    lease_lock_acquired,      \* [c] _lease_lock_acquired: Held (TRUE) / Released
    lease_renew_fail_count,   \* [c] _lease_renew_fail_count
    lease_last_acquire_time,  \* [c] _lease_last_acquire_time
    local_token,              \* [c] lease_lock.local.token of the redis Lock
    closed,                   \* [c] the host loop has called close()
    crashed,                  \* [c] the host process stopped for good
    ticked,                   \* [c] tick() was called at the present instant
    streak,                   \* [c] observer: consecutive failed renewals
    failures,                 \* [c] observer: failed renewals of the present Held term
    leader_since,             \* [c] observer: instant of the last Released -> Held
    ev                        \* observer: the call made at the present instant

cfg == <<lease_url, master_name, lease_lock_ttl, lease_interval>>
backend == <<key_owner, key_expiry>>
local == <<lease_lock_acquired, lease_renew_fail_count, lease_last_acquire_time, local_token>>
host == <<closed, crashed, ticked>>
vars == <<now, cfg, backend, local, host, streak, failures, leader_since, ev>>

Min(a, b) == IF a <= b THEN a ELSE b
Max(a, b) == IF a >= b THEN a ELSE b

Faults == {"ok", "RedisError"}
Delays == 0..MaxDelay

\* No call has been made at the present instant.
Idle ==
    [kind |-> "idle", who |-> NoToken, op |-> "none", ok |-> FALSE, ran |-> FALSE,
     ret |-> -1, asked |-> -1, exc |-> "none", raised |-> "none", shutdown |-> FALSE,
     calls |-> <<>>]

\* Construction and configuration.

UrlKinds == {"", "redis://", "sentinel://"}

\* __init__ raises ValueError when CELERY_LEASE_URL is not set.
InitRaises == lease_url = ""

Constructed == ~InitRaises

\* lease_redis_client raises ValueError for a sentinel URL without master_name.
ClientRaises == lease_url = "sentinel://" /\ ~master_name

RenewThresholdNoSlack(ttl, interval) == Max(1, ttl \div interval)

\* _lease_renew_threshold = max(1, ttl // interval - 1)
RenewThreshold(ttl, interval) == Max(1, ttl \div interval - 1)

lease_renew_threshold == RenewThreshold(lease_lock_ttl, lease_interval)

\* _time_since_last_lease
TimeSinceLastLease(c) == now - lease_last_acquire_time[c]

Init ==
    /\ now = 0
    /\ lease_url \in UrlKinds
    /\ master_name \in BOOLEAN
    /\ (lease_url # "sentinel://" => ~master_name)
    /\ lease_lock_ttl \in 1..MaxTTL
    /\ lease_interval \in 1..MaxInterval
    /\ key_owner = NoToken
    /\ key_expiry = 0
    /\ lease_lock_acquired = [c \in Controllers |-> FALSE]
    /\ lease_renew_fail_count = [c \in Controllers |-> 0]
    /\ lease_last_acquire_time = [c \in Controllers |-> 0]
    /\ local_token = [c \in Controllers |-> NoToken]
    /\ closed = [c \in Controllers |-> FALSE]
    /\ crashed = [c \in Controllers |-> FALSE]
    /\ ticked = [c \in Controllers |-> FALSE]
    /\ streak = [c \in Controllers |-> 0]
    /\ failures = [c \in Controllers |-> 0]
    /\ leader_since = [c \in Controllers |-> -1]
    /\ ev = Idle

LeaseExpiryPadded(t) == t + lease_lock_ttl + lease_interval

LeaseExpiryFromInterval(t) == t + lease_interval

\* lock(lease_lock_key, timeout=lease_lock_ttl): a key set or extended at
\* instant t expires at t + ttl.
LeaseExpiry(t) == t + lease_lock_ttl

\* The part of the state one call of controller c reads and writes.
State(c) ==
    [held |-> lease_lock_acquired[c], fail |-> lease_renew_fail_count[c],
     last |-> lease_last_acquire_time[c], token |-> local_token[c],
     owner |-> key_owner, expiry |-> key_expiry]

\* redis Lock.acquire(blocking=False, token=c): SET key c NX PX ttl.  The
\* Lock remembers the token only when the SET succeeded.
LockAcquire(c, fault) ==
    LET st == State(c) IN
    IF fault # "ok" THEN [exc |-> fault, value |-> FALSE, st |-> st]
    ELSE IF st.owner = NoToken
    THEN [exc |-> "none", value |-> TRUE,
          st |-> [st EXCEPT !.owner = c, !.expiry = LeaseExpiry(now), !.token = c]]
    ELSE [exc |-> "none", value |-> FALSE, st |-> st]

LockReacquireUnchecked(c, fault) ==
    LET st == State(c) IN
    IF st.token = NoToken THEN [exc |-> "LockError", op |-> "none", st |-> st]
    ELSE IF fault # "ok" THEN [exc |-> fault, op |-> "renew", st |-> st]
    ELSE IF st.owner = NoToken THEN [exc |-> "LockError", op |-> "renew", st |-> st]
    ELSE [exc |-> "none", op |-> "renew",
          st |-> [st EXCEPT !.expiry = LeaseExpiry(now)]]

\* redis Lock.reacquire(): LockError without a backend call when the Lock
\* holds no token; else PEXPIRE key ttl if the stored value is the token,
\* LockNotOwnedError (a LockError) if it is not.
LockReacquire(c, fault) ==
    LET st == State(c) IN
    IF st.token = NoToken THEN [exc |-> "LockError", op |-> "none", st |-> st]
    ELSE IF fault # "ok" THEN [exc |-> fault, op |-> "renew", st |-> st]
    ELSE IF st.owner # st.token THEN [exc |-> "LockError", op |-> "renew", st |-> st]
    ELSE [exc |-> "none", op |-> "renew",
          st |-> [st EXCEPT !.expiry = LeaseExpiry(now)]]

LockReleaseUnchecked(c, fault) ==
    LET st == [State(c) EXCEPT !.token = NoToken] IN
    IF fault # "ok" THEN [exc |-> fault, st |-> st]
    ELSE [exc |-> "none", st |-> [st EXCEPT !.owner = NoToken, !.expiry = 0]]

LockReleaseKeepsKey(c, fault) ==
    LET st == [State(c) EXCEPT !.token = NoToken] IN
    IF fault # "ok" THEN [exc |-> fault, st |-> st]
    ELSE IF st.owner # c THEN [exc |-> "LockError", st |-> st]
    ELSE [exc |-> "none", st |-> st]

\* close() sets local.token = c, then redis Lock.release(): the Lock forgets
\* the token, then DEL key if the stored value is the token, LockNotOwnedError
\* if it is not.
LockRelease(c, fault) ==
    LET st == [State(c) EXCEPT !.token = NoToken] IN
    IF fault # "ok" THEN [exc |-> fault, st |-> st]
    ELSE IF st.owner # c THEN [exc |-> "LockError", st |-> st]
    ELSE [exc |-> "none", st |-> [st EXCEPT !.owner = NoToken, !.expiry = 0]]

CatchesLockErrorOnly(exc) == exc = "LockError"

CatchesRedisErrorOnly(exc) == exc = "RedisError"

\* except (RedisError, LockError)
Catches(exc) == exc \in {"RedisError", "LockError"}

Propagated(exc) == IF exc = "none" \/ Catches(exc) THEN "none" ELSE exc

\* What a method of the mixin did: the state it leaves, the backend operation
\* it performed, the exception the backend raised, the one that left the
\* method, and the method's return value.
Done(st, op, exc, raised, result) ==
    [st |-> st, op |-> op, exc |-> exc, raised |-> raised, result |-> result]

AcquireLockTrusting(c, fault) ==
    LET r == LockAcquire(c, fault) IN
    IF ClientRaises THEN Done(State(c), "none", "ValueError", "ValueError", FALSE)
    ELSE IF r.exc # "none" THEN Done(r.st, "acquire", r.exc, Propagated(r.exc), FALSE)
    ELSE Done([r.st EXCEPT !.last = now, !.held = TRUE, !.fail = 0],
              "acquire", "none", "none", TRUE)

AcquireLockKeepsCount(c, fault) ==
    LET r == LockAcquire(c, fault) IN
    IF ClientRaises THEN Done(State(c), "none", "ValueError", "ValueError", FALSE)
    ELSE IF r.exc # "none" THEN Done(r.st, "acquire", r.exc, Propagated(r.exc), FALSE)
    ELSE IF r.value
    THEN Done([r.st EXCEPT !.last = now, !.held = TRUE], "acquire", "none", "none", TRUE)
    ELSE Done(r.st, "acquire", "none", "none", FALSE)

\* _acquire_lock
AcquireLock(c, fault) ==
    LET r == LockAcquire(c, fault) IN
    IF ClientRaises THEN Done(State(c), "none", "ValueError", "ValueError", FALSE)
    ELSE IF r.exc # "none" THEN Done(r.st, "acquire", r.exc, Propagated(r.exc), FALSE)
    ELSE IF r.value
    THEN Done([r.st EXCEPT !.last = now, !.held = TRUE, !.fail = 0],
              "acquire", "none", "none", TRUE)
    ELSE Done(r.st, "acquire", "none", "none", FALSE)

StillToleratedInclusive(count, threshold) == count <= threshold

\* if self._lease_renew_fail_count < self._lease_renew_threshold
StillTolerated(count, threshold) == count < threshold

RenewLockReleases(c, fault) ==
    LET r == LockReacquire(c, fault)
        n == r.st.fail + 1
    IN
    IF r.exc = "none"
    THEN Done([r.st EXCEPT !.last = now, !.fail = 0], r.op, "none", "none", TRUE)
    ELSE IF ~Catches(r.exc) THEN Done(r.st, r.op, r.exc, r.exc, FALSE)
    ELSE IF StillTolerated(n, lease_renew_threshold)
    THEN Done([r.st EXCEPT !.fail = n], r.op, r.exc, "none", FALSE)
    ELSE Done([r.st EXCEPT !.fail = n, !.held = FALSE,
                           !.owner = IF @ = c THEN NoToken ELSE @,
                           !.expiry = IF r.st.owner = c THEN 0 ELSE @],
              r.op, r.exc, "none", FALSE)

RenewLockOptimistic(c, fault) ==
    LET r == LockReacquire(c, fault)
        n == r.st.fail + 1
    IN
    IF r.exc = "none"
    THEN Done([r.st EXCEPT !.last = now, !.fail = 0], r.op, "none", "none", TRUE)
    ELSE IF ~Catches(r.exc) THEN Done(r.st, r.op, r.exc, r.exc, FALSE)
    ELSE IF StillTolerated(n, lease_renew_threshold)
    THEN Done([r.st EXCEPT !.fail = n], r.op, r.exc, "none", TRUE)
    ELSE Done([r.st EXCEPT !.fail = n, !.held = FALSE], r.op, r.exc, "none", FALSE)

RenewLockKeepsCount(c, fault) ==
    LET r == LockReacquire(c, fault)
        n == r.st.fail + 1
    IN
    IF r.exc = "none"
    THEN Done([r.st EXCEPT !.last = now], r.op, "none", "none", TRUE)
    ELSE IF ~Catches(r.exc) THEN Done(r.st, r.op, r.exc, r.exc, FALSE)
    ELSE Done([r.st EXCEPT !.fail = n,
                           !.held = IF StillTolerated(n, lease_renew_threshold) THEN @ ELSE FALSE],
              r.op, r.exc, "none", FALSE)

\* _renew_lock
RenewLock(c, fault) ==
    LET r == LockReacquire(c, fault)
        n == r.st.fail + 1
    IN
    IF r.exc = "none"
    THEN Done([r.st EXCEPT !.last = now, !.fail = 0], r.op, "none", "none", TRUE)
    ELSE IF ~Catches(r.exc) THEN Done(r.st, r.op, r.exc, r.exc, FALSE)
    ELSE Done([r.st EXCEPT !.fail = n,
                           !.held = IF StillTolerated(n, lease_renew_threshold) THEN @ ELSE FALSE],
              r.op, r.exc, "none", FALSE)

HeldWaitUncapped(interval, elapsed, superTick) == superTick

HeldWaitWithinTTL(interval, elapsed, superTick) == Min(lease_lock_ttl - elapsed, superTick)

\* min(self.lease_interval - self._time_since_last_lease, super().tick())
HeldWait(interval, elapsed, superTick) == Min(interval - elapsed, superTick)

\* The backend calls a method of the mixin made, in order.
Calls(r) == IF r.op = "none" THEN <<>> ELSE <<r.op>>

\* What one call of tick() did: the record of the lease method it invoked,
\* the backend calls made, whether super().tick() ran, the delay it asked for
\* (-1: it did not run) and the value tick() returned (-1: none, the call
\* raised).
Ticked(r, ran, asked, ret) ==
    [st |-> r.st, op |-> r.op, exc |-> r.exc, raised |-> r.raised, ok |-> r.result,
     calls |-> Calls(r), ran |-> ran, asked |-> asked, ret |-> ret]

\* The tail of tick(): the scheduling pass of the wrapped scheduler, which
\* asks for a delay of superTick.
Proceed(r, superTick) ==
    Ticked(r, TRUE, superTick, HeldWait(lease_interval, now - r.st.last, superTick))

EarlyReturnAtOnce(r) == Ticked(r, FALSE, -1, 0)

\* return self.lease_interval
EarlyReturn(r) == Ticked(r, FALSE, -1, lease_interval)

AfterLeaseStepFallsThrough(r, superTick) ==
    IF r.raised # "none" THEN Ticked(r, FALSE, -1, -1)
    ELSE Proceed(r, superTick)

\* What tick() does with the outcome of _renew_lock or _acquire_lock.
AfterLeaseStep(r, superTick) ==
    IF r.raised # "none" THEN Ticked(r, FALSE, -1, -1)
    ELSE IF ~r.result THEN EarlyReturn(r)
    ELSE Proceed(r, superTick)

TickOutcomeRetriesAtOnce(c, fault, superTick) ==
    LET rn == RenewLock(c, fault)
        aq == AcquireLock(c, fault)
    IN
    IF lease_lock_acquired[c]
    THEN IF TimeSinceLastLease(c) < lease_interval
         THEN Proceed(Done(State(c), "none", "none", "none", TRUE), superTick)
         ELSE IF rn.raised = "none" /\ ~rn.result /\ ~rn.st.held
              THEN [AfterLeaseStep(IF aq.result THEN aq ELSE [rn EXCEPT !.op = "acquire"],
                                   superTick)
                       EXCEPT !.calls = <<"renew", "acquire">>]
              ELSE AfterLeaseStep(rn, superTick)
    ELSE AfterLeaseStep(aq, superTick)

TickOutcomeAlwaysRenews(c, fault, superTick) ==
    IF lease_lock_acquired[c]
    THEN AfterLeaseStep(RenewLock(c, fault), superTick)
    ELSE AfterLeaseStep(AcquireLock(c, fault), superTick)

\* tick()
TickOutcome(c, fault, superTick) ==
    IF lease_lock_acquired[c]
    THEN IF TimeSinceLastLease(c) < lease_interval
         THEN Proceed(Done(State(c), "none", "none", "none", TRUE), superTick)
         ELSE AfterLeaseStep(RenewLock(c, fault), superTick)
    ELSE AfterLeaseStep(AcquireLock(c, fault), superTick)

CloseOutcomeUnguarded(c, fault) ==
    LET r == LockRelease(c, fault) IN
    Done(r.st, "release", r.exc, Propagated(r.exc), r.exc = "none")

\* close(), up to super().close()
CloseOutcome(c, fault) ==
    IF lease_lock_acquired[c]
    THEN LET r == LockRelease(c, fault) IN
         Done(r.st, "release", r.exc, Propagated(r.exc), r.exc = "none")
    ELSE Done(State(c), "none", "none", "none", FALSE)

\* super().close(): reached unless the release let an exception out.
SuperClose(r) == IF r.raised = "none" THEN <<"shutdown">> ELSE <<>>

\* The state a call of c leaves behind.
Commit(c, st) ==
    /\ lease_lock_acquired' = [lease_lock_acquired EXCEPT ![c] = st.held]
    /\ lease_renew_fail_count' = [lease_renew_fail_count EXCEPT ![c] = st.fail]
    /\ lease_last_acquire_time' = [lease_last_acquire_time EXCEPT ![c] = st.last]
    /\ local_token' = [local_token EXCEPT ![c] = st.token]
    /\ key_owner' = st.owner
    /\ key_expiry' = st.expiry

\* One call of tick() by c: the lease step, then the scheduling pass.
TickCall(c, fault, superTick) ==
    /\ Constructed /\ ~closed[c] /\ ~crashed[c]
    /\ LET o == TickOutcome(c, fault, superTick) IN
       /\ Commit(c, o.st)
       /\ streak' = [streak EXCEPT ![c] =
              IF o.exc = "ValueError" \/ o.raised # "none" THEN @
              ELSE IF lease_lock_acquired[c]
                   THEN (IF TimeSinceLastLease(c) < lease_interval THEN @
                         ELSE IF o.ok THEN 0 ELSE @ + 1)
                   ELSE (IF o.ok THEN 0 ELSE @)]
       /\ failures' = [failures EXCEPT ![c] =
              IF ~lease_lock_acquired[c] THEN 0
              ELSE IF o.op = "renew" /\ ~o.ok THEN Min(@ + 1, MaxFailures) ELSE @]
       /\ ev' = [kind |-> "tick", who |-> c, op |-> o.op, ok |-> o.ok, ran |-> o.ran,
                 ret |-> o.ret, asked |-> o.asked, exc |-> o.exc, raised |-> o.raised,
                 shutdown |-> FALSE, calls |-> o.calls]
    /\ UNCHANGED <<now, cfg, closed, crashed>>

\* A host calls tick() whenever it likes: it may sleep longer than asked,
\* stall, or resume.
Tick(c, fault, superTick) ==
    /\ TickCall(c, fault, superTick)
    /\ UNCHANGED <<ticked, leader_since>>

\* The host loop shuts down and calls close(): the release, then
\* super().close() unless the release let an exception out; ev.calls lists
\* what close() called, in order.
Close(c, fault) ==
    /\ Constructed /\ ~closed[c] /\ ~crashed[c]
    /\ LET o == CloseOutcome(c, fault) IN
       /\ Commit(c, o.st)
       /\ ev' = [kind |-> "close", who |-> c, op |-> o.op, ok |-> o.result, ran |-> FALSE,
                 ret |-> -1, asked |-> -1, exc |-> o.exc, raised |-> o.raised,
                 shutdown |-> (o.raised = "none"), calls |-> Calls(o) \o SuperClose(o)]
    /\ closed' = [closed EXCEPT ![c] = TRUE]
    /\ UNCHANGED <<now, cfg, crashed, ticked, streak, failures, leader_since>>

\* Time passes; the backend drops the key when its TTL has run out.
Elapse(limit) ==
    /\ now < limit
    /\ now' = now + 1
    /\ IF key_owner # NoToken /\ now + 1 >= key_expiry
       THEN key_owner' = NoToken /\ key_expiry' = 0
       ELSE UNCHANGED backend
    /\ ticked' = [c \in Controllers |-> FALSE]
    /\ ev' = Idle
    /\ UNCHANGED <<cfg, local, closed, crashed, streak, failures, leader_since>>

Advance == Elapse(MaxTime)

Next ==
    \/ Advance
    \/ \E c \in Controllers, fault \in Faults, superTick \in Delays : Tick(c, fault, superTick)
    \/ \E c \in Controllers, fault \in Faults : Close(c, fault)

Spec == Init /\ [][Next]_vars

\* Failover after a crash.  Replica "A" ticks as it likes, against a backend
\* that may fail, and may stop for good without close().  The host loop of
\* replica "B" calls tick() once per renewal interval, at the multiples of
\* the interval, against a backend that answers.

Crash(c) ==
    /\ Constructed /\ ~closed[c] /\ ~crashed[c]
    /\ crashed' = [crashed EXCEPT ![c] = TRUE]
    /\ UNCHANGED <<now, cfg, backend, local, closed, ticked, streak, failures, leader_since, ev>>

WatchedTick(c, fault, superTick) ==
    /\ TickCall(c, fault, superTick)
    /\ ticked' = [ticked EXCEPT ![c] = TRUE]
    /\ leader_since' = [leader_since EXCEPT ![c] =
           IF ~lease_lock_acquired[c] /\ lease_lock_acquired'[c] THEN now ELSE @]

PunctualTick(c, superTick) ==
    /\ now % lease_interval = 0
    /\ ~ticked[c]
    /\ WatchedTick(c, "ok", superTick)

PunctualAdvance ==
    /\ (Constructed /\ now % lease_interval = 0) => ticked["B"]
    /\ Elapse(MaxFailoverTime)

NextFailover ==
    \/ PunctualAdvance
    \/ \E fault \in Faults, superTick \in Delays : WatchedTick("A", fault, superTick)
    \/ Crash("A")
    \/ \E superTick \in Delays : PunctualTick("B", superTick)

SpecFailover == Init /\ [][NextFailover]_vars

\* A host loop on the renewal cadence.  The host loop of replica "B" calls
\* tick() once per renewal interval, at the multiples of the interval,
\* against a backend that may fail; replica "A" ticks as it likes.

CadencedTick(c, fault, superTick) ==
    /\ now % lease_interval = 0
    /\ ~ticked[c]
    /\ WatchedTick(c, fault, superTick)

CadenceAdvance ==
    /\ (Constructed /\ now % lease_interval = 0) => ticked["B"]
    /\ Elapse(MaxTime)

NextCadence ==
    \/ CadenceAdvance
    \/ \E fault \in Faults, superTick \in Delays : WatchedTick("A", fault, superTick)
    \/ \E fault \in Faults, superTick \in Delays : CadencedTick("B", fault, superTick)

SpecCadence == Init /\ [][NextCadence]_vars

\* ------------------------------------------------------------------------
\* Mutual exclusion.

\* c is Held and its host has not shut it down.
HeldOpen(c) == lease_lock_acquired[c] /\ ~closed[c]

\* The grace allowed around the expiry of a record: one further TTL, which is
\* more than the RenewalTolerance ticks a stale holder needs to concede.
GraceWindow == lease_lock_ttl

\* C1 as stated: two controllers are both Held only inside a bounded grace
\* window around TTL expiry, so whenever both are Held neither one's last
\* successful acquire/renew is older than TTL plus the grace window (stated
\* for the configurations the design assumes, TTL greater than the interval).
C1_HeldTogetherOnlyInGraceWindow ==
    \A a, b \in Controllers :
        (lease_lock_ttl > lease_interval /\ a # b /\ HeldOpen(a) /\ HeldOpen(b))
            => TimeSinceLastLease(a) < lease_lock_ttl + GraceWindow

\* C1 amended: at most one controller is Held with a lease younger than TTL;
\* whenever two controllers are both Held, the last successful acquire/renew
\* of one of them is at least TTL old, and the other one owns the record.
C1_AtMostOneFreshHolder ==
    \A a, b \in Controllers :
        (a # b /\ HeldOpen(a) /\ HeldOpen(b))
            => \/ TimeSinceLastLease(a) >= lease_lock_ttl
               \/ (TimeSinceLastLease(b) >= lease_lock_ttl /\ key_owner = a)

C1_StaleAndFreshHolder ==
    /\ HeldOpen("A") /\ HeldOpen("B")
    /\ TimeSinceLastLease("A") >= lease_lock_ttl
    /\ TimeSinceLastLease("B") < lease_lock_ttl
    /\ key_owner = "B"

\* ------------------------------------------------------------------------
\* Eventual acquisition (under SpecFailover).

TakeoverDeadline == lease_last_acquire_time["A"] + lease_lock_ttl + lease_interval

\* C2 as stated: once the Held controller A has stopped ticking, at every
\* instant later than TTL + renewal interval after A's last successful
\* acquire/renew the punctual controller B has already made a transition
\* Released -> Held that is later than A's last success.
C2_TakeoverWithinTTLPlusInterval ==
    (crashed["A"] /\ lease_lock_acquired["A"] /\ now > TakeoverDeadline)
        => leader_since["B"] > lease_last_acquire_time["A"]

\* C2 amended: the same, for configurations whose TTL is at least the renewal
\* interval.  (With a shorter TTL the record of B runs out between two of its
\* ticks, A can acquire in the gap, and B spends the tick on which it would
\* have taken over on conceding its own stale lease.)
C2_TakeoverWhenTTLCoversInterval ==
    (lease_lock_ttl >= lease_interval
         /\ crashed["A"] /\ lease_lock_acquired["A"] /\ now > TakeoverDeadline)
        => leader_since["B"] > lease_last_acquire_time["A"]

C2_TookOverAfterCrash ==
    /\ lease_lock_ttl >= lease_interval
    /\ crashed["A"] /\ lease_lock_acquired["A"]
    /\ now > TakeoverDeadline
    /\ leader_since["B"] >= lease_last_acquire_time["A"] + lease_lock_ttl
    /\ lease_lock_acquired["B"] /\ key_owner = "B"

\* ------------------------------------------------------------------------
\* Bounded tolerance.

\* The tick just made by c attempted a renewal, and the renewal failed.
RenewalFailed(c) == ev.kind = "tick" /\ ev.who = c /\ ev.op = "renew" /\ ~ev.ok

\* C3: RenewalTolerance is 3 for TTL=60, interval=15 and 1 for TTL=10,
\* interval=10; after a failed renewal the controller is Held while fewer than
\* RenewalTolerance renewals have failed in a row and Released exactly when
\* the RenewalTolerance-th in a row has failed.
C3_BoundedTolerance ==
    /\ RenewThreshold(60, 15) = 3
    /\ RenewThreshold(10, 10) = 1
    /\ \A c \in Controllers :
           RenewalFailed(c) =>
               /\ streak[c] >= 1
               /\ streak[c] <= lease_renew_threshold
               /\ lease_lock_acquired[c] <=> (streak[c] < lease_renew_threshold)

C3_ReleasedOnThirdFailure ==
    /\ RenewalFailed("A")
    /\ lease_renew_threshold = 3
    /\ streak["A"] = 3
    /\ ~lease_lock_acquired["A"]

\* ------------------------------------------------------------------------
\* The wait tick() returns.

\* The tick just made by c returned normally.
Returned(c) == ev.kind = "tick" /\ ev.who = c /\ ev.raised = "none"

\* Time left until the lease of c is due for renewal.
RenewalDueIn(c) == lease_interval - TimeSinceLastLease(c)

\* C4 as stated: after every tick that leaves the controller Held, the value
\* returned is at most the time remaining until the lease needs renewal.
C4_HeldWaitWithinRenewalDue ==
    \A c \in Controllers :
        (Returned(c) /\ lease_lock_acquired[c]) => ev.ret <= RenewalDueIn(c)

\* C4 amended: every tick that runs the scheduling pass leaves the controller
\* Held and returns at most the time remaining until the lease needs renewal,
\* whatever delay the pass asks for; a tick whose renewal fails within the
\* tolerance also leaves the controller Held, but returns the full renewal
\* interval although the renewal is already due.
C4_WaitWithinRenewalDueWhenPassRan ==
    \A c \in Controllers :
        /\ (Returned(c) /\ ev.ran) =>
               /\ lease_lock_acquired[c]
               /\ ev.ret <= RenewalDueIn(c)
               /\ ev.ret <= ev.asked
        /\ (Returned(c) /\ lease_lock_acquired[c] /\ ~ev.ran) =>
               /\ RenewalFailed(c)
               /\ RenewalDueIn(c) <= 0
               /\ ev.ret = lease_interval

C4_LongDelayCutToRenewalDue ==
    /\ Returned("A") /\ ev.ran /\ ev.op = "none"
    /\ TimeSinceLastLease("A") > 0
    /\ ev.asked > RenewalDueIn("A")
    /\ ev.ret = RenewalDueIn("A")

\* C5: whatever the lease step did, a tick that returns returns a wait of at
\* most the renewal interval.
C5_WaitAtMostInterval ==
    \A c \in Controllers : Returned(c) => ev.ret <= lease_interval

C5_LongDelayCutToInterval ==
    /\ Returned("B") /\ ev.op = "renew" /\ ev.ok
    /\ ev.asked > lease_interval
    /\ ev.ret = lease_interval

\* ------------------------------------------------------------------------
\* Contention.

\* The step is a call of tick() by c (every step of Spec rewrites ev).
TickStep(c) == ev'.kind = "tick" /\ ev'.who = c

\* C6: a tick of a Released controller made while the key holds another
\* controller's token leaves it Released, runs no scheduling pass and leaves
\* the key alone; a controller turns Held only in a tick of its own that
\* starts with the key absent (expired or deleted) and ends with the key
\* holding its own token.
C6_NoEarlyTakeover ==
    [][\A c \in Controllers :
          /\ (TickStep(c) /\ ~lease_lock_acquired[c] /\ key_owner \notin {NoToken, c})
                 => (~lease_lock_acquired'[c] /\ ~ev'.ran /\ UNCHANGED backend)
          /\ (~lease_lock_acquired[c] /\ lease_lock_acquired'[c])
                 => (TickStep(c) /\ key_owner = NoToken /\ key_owner' = c)]_vars

C6_ContenderFoundKeyBusy ==
    /\ ev.kind = "tick" /\ ev.who = "B" /\ ev.op = "acquire"
    /\ ev.exc = "none" /\ ~ev.ok
    /\ key_owner = "A"
    /\ ~lease_lock_acquired["B"]

\* C7: a tick whose acquire fails, because the key is taken or because the
\* backend raised, leaves the controller Released, raises nothing, returns
\* exactly the renewal interval and does not run the scheduling pass.
C7_FailedAcquireSkipsCycle ==
    \A c \in Controllers :
        (ev.kind = "tick" /\ ev.who = c /\ ev.op = "acquire" /\ ~ev.ok) =>
            /\ ~lease_lock_acquired[c]
            /\ ev.raised = "none"
            /\ ev.ret = lease_interval
            /\ ~ev.ran

C7_AcquireHitBackendError ==
    /\ ev.kind = "tick" /\ ev.who = "A" /\ ev.op = "acquire"
    /\ ev.exc = "RedisError"
    /\ ev.ret = lease_interval

\* ------------------------------------------------------------------------
\* Errors.

BackendErrors == {"RedisError", "LockError"}

\* C8: an error raised by the backend during acquire, renew or release never
\* leaves tick() or close(): the tick returns the renewal interval with the
\* controller Released or Held, and the close goes on to the wrapped
\* scheduler's shutdown.
C8_BackendErrorsAbsorbed ==
    /\ ev.raised \notin BackendErrors
    /\ ev.exc \in BackendErrors =>
           /\ ev.raised = "none"
           /\ ev.kind = "tick" => (ev.ret = lease_interval /\ ~ev.ran)
           /\ ev.kind = "close" => ev.shutdown

C8_RenewHitBackendError ==
    /\ ev.kind = "tick" /\ ev.who = "A" /\ ev.op = "renew"
    /\ ev.exc = "RedisError"
    /\ lease_lock_acquired["A"]

\* C9: a sentinel configuration that names no master fails at construction,
\* so no controller built from it ever runs a tick, and tick() never raises
\* the configuration error.
C9_SentinelWithoutMasterFailsAtConstruction ==
    ClientRaises => (ev.kind # "tick" /\ ev.raised # "ValueError")

\* ------------------------------------------------------------------------
\* close().

\* The step is the call of close() by c.
CloseStep(c) == ~closed[c] /\ closed'[c]

\* C10: close() on a Released controller makes no backend call, raises
\* nothing and leaves the backend record as it was.
C10_CloseWhenReleasedIsLocal ==
    [][\A c \in Controllers :
          (CloseStep(c) /\ ~lease_lock_acquired[c])
              => (ev'.op = "none" /\ ev'.raised = "none" /\ UNCHANGED backend)]_vars

C10_ReleasedCloseBesideLiveRecord ==
    /\ ev.kind = "close" /\ ev.who = "A" /\ ev.op = "none"
    /\ ~lease_lock_acquired["A"]
    /\ key_owner = "A"

\* C11 as stated: close() on a Held controller whose token owns the record
\* deletes the record.
C11_CloseDeletesOwnedRecord ==
    [][\A c \in Controllers :
          (CloseStep(c) /\ lease_lock_acquired[c] /\ key_owner = c)
              => key_owner' = NoToken]_vars

\* C11 amended: close() on a Held controller whose token owns the record
\* deletes the record when the release reaches the backend, and leaves it
\* to run out its TTL when the release raises a backend error; and a tick of
\* a Released controller that finds the key absent and the backend answering
\* acquires the lease and runs the scheduling pass in that tick, however
\* much of the deleted record's TTL was left.
C11_CloseHandsOverWhenReleaseSucceeds ==
    [][\A c \in Controllers :
          /\ (CloseStep(c) /\ lease_lock_acquired[c] /\ key_owner = c) =>
                 /\ ev'.op = "release"
                 /\ IF ev'.exc = "none"
                    THEN key_owner' = NoToken /\ key_expiry' = 0
                    ELSE UNCHANGED backend
          /\ (TickStep(c) /\ ~lease_lock_acquired[c] /\ key_owner = NoToken
                  /\ ev'.exc = "none") =>
                 /\ lease_lock_acquired'[c]
                 /\ key_owner' = c
                 /\ ev'.ran]_vars

\* B acquired while the record A deleted in close() had TTL left.
C11_ContenderAcquiredBeforeExpiry ==
    /\ closed["A"] /\ lease_lock_acquired["A"]
    /\ ev.kind = "tick" /\ ev.who = "B" /\ ev.op = "acquire" /\ ev.ok
    /\ now > lease_last_acquire_time["A"]
    /\ now + 1 < lease_last_acquire_time["A"] + lease_lock_ttl

\* ------------------------------------------------------------------------
\* Acquisition.

\* c is as __init__ left it: it has never held the lease.
NeverHeld(c) ==
    /\ local_token[c] = NoToken /\ ~closed[c]
    /\ lease_last_acquire_time[c] = 0

\* C12 as stated: a newly constructed controller is Released, and a tick of
\* it made while the key is absent makes it Held, writes the key with its
\* token and the configured TTL, leaves the failure count at 0 and runs the
\* scheduling pass (stated for configurations that name their backend).
C12_FirstTickOnFreeKeyAcquires ==
    [][\A c \in Controllers :
          /\ NeverHeld(c) => (~lease_lock_acquired[c] /\ lease_renew_fail_count[c] = 0)
          /\ (TickStep(c) /\ NeverHeld(c) /\ key_owner = NoToken /\ ~ClientRaises) =>
                 /\ lease_lock_acquired'[c]
                 /\ key_owner' = c /\ key_expiry' = now + lease_lock_ttl
                 /\ lease_renew_fail_count'[c] = 0
                 /\ ev'.ran]_vars

\* C12 amended: a newly constructed controller is Released with failure
\* count 0; a tick of a Released controller (newly constructed or demoted)
\* whose acquire the backend answers while the key is absent makes it Held,
\* writes the key with its token and the configured TTL, records the
\* acquisition time, resets the failure count to 0 and runs the scheduling
\* pass in that tick; when the backend raises instead, the controller stays
\* Released and the key stays absent.
C12_AnsweredAcquireOnFreeKey ==
    [][\A c \in Controllers :
          /\ NeverHeld(c) => (~lease_lock_acquired[c] /\ lease_renew_fail_count[c] = 0)
          /\ (TickStep(c) /\ ~lease_lock_acquired[c] /\ key_owner = NoToken
                  /\ ev'.op = "acquire") =>
                 IF ev'.exc = "none"
                 THEN /\ lease_lock_acquired'[c]
                      /\ key_owner' = c /\ key_expiry' = now + lease_lock_ttl
                      /\ lease_last_acquire_time'[c] = now
                      /\ lease_renew_fail_count'[c] = 0
                      /\ ev'.ran
                 ELSE ~lease_lock_acquired'[c] /\ UNCHANGED backend]_vars

\* The first call made in the run is a tick of A that acquires.
C12_FirstTickAcquired ==
    /\ now = 0
    /\ ev.kind = "tick" /\ ev.who = "A" /\ ev.op = "acquire" /\ ev.ok /\ ev.ran
    /\ lease_lock_acquired["A"] /\ lease_renew_fail_count["A"] = 0
    /\ key_owner = "A" /\ key_expiry = lease_lock_ttl
    /\ NeverHeld("B")

\* ------------------------------------------------------------------------
\* Local state after close().

\* C13: once close() has been called on a controller it is Released, whether
\* it was Released already or was Held and its release succeeded or failed.
C13_ClosedIsReleased ==
    \A c \in Controllers : closed[c] => ~lease_lock_acquired[c]

\* ------------------------------------------------------------------------
\* The scheduling pass.

\* C14: the scheduling pass runs in a tick only if the lease step of that
\* tick did not fail and leaves the controller Held; every tick whose
\* acquire or renewal failed skips it, also a failed renewal within the
\* tolerance, which leaves the controller Held.
C14_PassOnlyAfterGoodLeaseStep ==
    \A c \in Controllers :
        (ev.kind = "tick" /\ ev.who = c) =>
            /\ ev.ran => (lease_lock_acquired[c] /\ ev.ok /\ ev.exc = "none")
            /\ (ev.op \in {"acquire", "renew"} /\ ~ev.ok) => ~ev.ran
            /\ ev.ran <=> ev.asked >= 0

C14_ToleratedFailureSkippedPass ==
    /\ ev.kind = "tick" /\ ev.who = "B" /\ ev.op = "renew" /\ ~ev.ok
    /\ lease_lock_acquired["B"]
    /\ ~ev.ran /\ ev.ret = lease_interval

\* ------------------------------------------------------------------------
\* Only consecutive failures count.

\* C15: a successful renewal resets the failure count to 0 and keeps the
\* controller Held; the failure count of a Held controller is the length of
\* its present run of failed renewals; and a controller is demoted only by
\* the failed renewal that completes a run of RenewalTolerance, however many
\* renewals failed before.
C15_OnlyConsecutiveFailuresCount ==
    [][\A c \in Controllers :
          /\ (TickStep(c) /\ ev'.op = "renew" /\ ev'.ok) =>
                 (lease_lock_acquired'[c] /\ lease_renew_fail_count'[c] = 0)
          /\ lease_lock_acquired'[c] =>
                 /\ lease_renew_fail_count'[c] = streak'[c]
                 /\ streak'[c] < lease_renew_threshold
          /\ (lease_lock_acquired[c] /\ ~lease_lock_acquired'[c]) =>
                 /\ TickStep(c) /\ ev'.op = "renew" /\ ~ev'.ok
                 /\ streak'[c] = lease_renew_threshold]_vars

\* Held after a successful renewal, with RenewalTolerance or more failed
\* renewals behind it in this term.
C15_HeldAfterManyScatteredFailures ==
    /\ ev.kind = "tick" /\ ev.who = "A" /\ ev.op = "renew" /\ ev.ok
    /\ lease_lock_acquired["A"] /\ lease_renew_fail_count["A"] = 0
    /\ lease_renew_threshold >= 2
    /\ failures["A"] >= lease_renew_threshold

\* ------------------------------------------------------------------------
\* Backend calls per tick.

\* C16: a tick makes at most one backend call: none or one renew when it
\* starts Held, one acquire when it starts Released (none if the client
\* cannot be built); the tick that demotes the controller makes one renew
\* and no acquire and leaves the key as it was; and the tick that follows a
\* demotion starts Released, so its call is an acquire.
C16_OneBackendCallPerTick ==
    [][\A c \in Controllers :
          TickStep(c) =>
              /\ Len(ev'.calls) <= 1
              /\ lease_lock_acquired[c] =>
                     ev'.calls = IF TimeSinceLastLease(c) < lease_interval
                                 THEN <<>> ELSE <<"renew">>
              /\ ~lease_lock_acquired[c] =>
                     ev'.calls = IF ClientRaises THEN <<>> ELSE <<"acquire">>
              /\ (lease_lock_acquired[c] /\ ~lease_lock_acquired'[c]) =>
                     (ev'.calls = <<"renew">> /\ UNCHANGED backend)]_vars

\* A demoted controller's next tick called acquire, and found the key busy.
C16_AcquireFollowedDemotion ==
    /\ ev.kind = "tick" /\ ev.who = "A" /\ ev.calls = <<"acquire">> /\ ~ev.ok
    /\ ~lease_lock_acquired["A"]
    /\ lease_renew_fail_count["A"] = lease_renew_threshold

\* ------------------------------------------------------------------------
\* A tick between renewals.

\* C17: a tick of a Held controller made less than one renewal interval
\* after its last successful acquire/renew makes no backend call, leaves
\* possession, failure count, last-renewal time, the lock's token and the
\* backend record unchanged, raises nothing and runs the scheduling pass.
C17_TickBetweenRenewalsIsLocal ==
    [][\A c \in Controllers :
          (TickStep(c) /\ lease_lock_acquired[c] /\ TimeSinceLastLease(c) < lease_interval) =>
              /\ ev'.calls = <<>> /\ ev'.exc = "none" /\ ev'.raised = "none"
              /\ UNCHANGED <<backend, local>>
              /\ ev'.ran /\ ev'.asked >= 0]_vars

\* A tick of A made after its acquire but before a renewal was due ran the
\* pass without calling the backend.
C17_PassRanWithoutBackendCall ==
    /\ ev.kind = "tick" /\ ev.who = "A" /\ ev.calls = <<>> /\ ev.ran
    /\ lease_lock_acquired["A"]
    /\ TimeSinceLastLease("A") > 0
    /\ key_owner = "A"

\* ------------------------------------------------------------------------
\* Tolerance slack (under SpecCadence).

\* The tick just made by c was the failed renewal that demoted it.
Conceded(c) == RenewalFailed(c) /\ ~lease_lock_acquired[c]

\* C18 as stated: for every positive TTL and interval, a controller that
\* ticks once per interval concedes when the time since its last successful
\* acquire/renew is at most TTL - interval.
C18_ConcedesOneIntervalBeforeExpiry ==
    Conceded("B") => TimeSinceLastLease("B") <= lease_lock_ttl - lease_interval

\* C18 amended: when TTL is at least twice the interval, a controller that
\* ticks once per interval concedes RenewalTolerance intervals after its
\* last successful acquire/renew, which is at most TTL - interval; for any
\* TTL and interval it concedes RenewalTolerance intervals after it, and
\* (RenewalTolerance + 1) intervals fit into TTL exactly when TTL is at
\* least twice the interval.
C18_SlackWhenTTLCoversTwoIntervals ==
    /\ Conceded("B") =>
           /\ TimeSinceLastLease("B") = lease_renew_threshold * lease_interval
           /\ lease_lock_ttl >= 2 * lease_interval =>
                  TimeSinceLastLease("B") <= lease_lock_ttl - lease_interval
    /\ \A ttl \in 1..MaxTTL, interval \in 1..MaxInterval :
           (RenewThreshold(ttl, interval) + 1) * interval <= ttl <=> ttl >= 2 * interval

\* B conceded on its second failed renewal, one interval before the expiry
\* of its record.
C18_ConcededWithSlack ==
    /\ Conceded("B")
    /\ lease_renew_threshold = 2
    /\ TimeSinceLastLease("B") = 2 * lease_interval
    /\ key_owner = "B" /\ key_expiry - now >= lease_interval

\* ------------------------------------------------------------------------
\* Shutdown of the wrapped scheduler.

\* C19: every call of close() calls the wrapped scheduler's shutdown once,
\* as its last call: alone when the controller is Released, after the one
\* release attempt when it is Held, whether the release deleted the key,
\* raised a backend error or was rejected for a token that is not the owner.
C19_CloseAlwaysShutsDown ==
    ev.kind = "close" =>
        /\ ev.shutdown /\ ev.raised = "none"
        /\ ev.op = "none" => (ev.calls = <<"shutdown">> /\ ev.exc = "none")
        /\ ev.op # "none" =>
               /\ ev.calls = <<"release", "shutdown">>
               /\ ev.exc \in {"none", "RedisError", "LockError"}
               /\ ev.ok <=> ev.exc = "none"

\* A's release was rejected, B being the owner, and the shutdown still ran.
C19_ShutdownAfterRejectedRelease ==
    /\ ev.kind = "close" /\ ev.who = "A" /\ ev.exc = "LockError"
    /\ key_owner = "B"
    /\ ev.calls = <<"release", "shutdown">>

\* ------------------------------------------------------------------------
\* Dispatch under ownership.

\* C20: when TTL exceeds the renewal interval, whenever a tick of a
\* controller runs the scheduling pass the key is present, unexpired and
\* holds that controller's token; so no controller runs the pass while the
\* key holds another controller's token.
C20_PassOnlyUnderOwnRecord ==
    lease_lock_ttl > lease_interval =>
        \A c \in Controllers :
            (ev.kind = "tick" /\ ev.who = c /\ ev.ran) =>
                /\ key_owner = c
                /\ key_expiry > now
                /\ \A d \in Controllers \ {c} : key_owner # d

\* B ran the pass as owner of the record while A, which stopped ticking
\* before its record ran out, is still Held locally.
C20_OwnerDispatchedBesideStaleHolder ==
    /\ lease_lock_ttl > lease_interval
    /\ ev.kind = "tick" /\ ev.who = "B" /\ ev.ran
    /\ HeldOpen("A") /\ HeldOpen("B")
    /\ key_owner = "B"

\* ------------------------------------------------------------------------
\* A stale holder.

\* c is Held locally while the key holds another controller's token.
Stale(c) == lease_lock_acquired[c] /\ key_owner \notin {NoToken, c}

\* What every tick of a stale holder does: it attempts a renewal, which
\* fails; it runs no pass; it leaves the key alone; it lengthens the run of
\* failed renewals by one, and it demotes the controller exactly when the run
\* reaches RenewalTolerance.
StaleTick(c) ==
    /\ ev'.calls = <<"renew">> /\ ~ev'.ok /\ ev'.raised = "none"
    /\ ~ev'.ran
    /\ UNCHANGED backend
    /\ streak[c] < lease_renew_threshold
    /\ streak'[c] = streak[c] + 1
    /\ lease_lock_acquired'[c] <=> (streak'[c] < lease_renew_threshold)

\* C21 as stated: every tick of a controller that is Held while another
\* controller owns the record attempts a renewal that fails, runs no pass,
\* leaves the record alone, and the controller is Released after at most
\* RenewalTolerance such ticks.
C21_StaleHolderConcedes ==
    [][\A c \in Controllers : (TickStep(c) /\ Stale(c)) => StaleTick(c)]_vars

\* C21 amended: the same when TTL is at least the renewal interval, and for
\* any TTL in every tick made an interval or more after the stale holder's
\* last successful acquire/renew; with a shorter TTL, a tick of the stale
\* holder made less than an interval after its last success attempts no
\* renewal and runs the scheduling pass, the record still being left alone.
C21_StaleHolderConcedesOnceRenewalIsDue ==
    [][\A c \in Controllers :
          (TickStep(c) /\ Stale(c)) =>
              /\ UNCHANGED backend
              /\ IF TimeSinceLastLease(c) >= lease_interval
                 THEN StaleTick(c)
                 ELSE /\ lease_lock_ttl < lease_interval
                      /\ ev'.calls = <<>> /\ ev'.ran
                      /\ UNCHANGED local]_vars

\* A conceded on its second failed renewal under B's record, which is as B
\* wrote it.
C21_StaleHolderConceded ==
    /\ ev.kind = "tick" /\ ev.who = "A" /\ ev.op = "renew" /\ ev.exc = "LockError"
    /\ ~lease_lock_acquired["A"]
    /\ lease_renew_threshold = 2 /\ streak["A"] = 2
    /\ key_owner = "B" /\ key_expiry = lease_last_acquire_time["B"] + lease_lock_ttl

\* ------------------------------------------------------------------------
\* Demotion.

\* C22: the tick that demotes a controller leaves the key (token and expiry)
\* as it was; while the key is present every acquire fails and changes
\* nothing, the demoted controller's own acquire with the token the key
\* holds included; the record of a Released controller is neither extended
\* nor deleted and ends only by running out its TTL; and a controller
\* becomes Held only when the key is absent.
C22_DemotionKeepsRecord ==
    [][\A c \in Controllers :
          /\ (lease_lock_acquired[c] /\ ~lease_lock_acquired'[c]) =>
                 (TickStep(c) /\ UNCHANGED backend)
          /\ (TickStep(c) /\ ev'.op = "acquire" /\ key_owner # NoToken) =>
                 (~ev'.ok /\ ~lease_lock_acquired'[c] /\ UNCHANGED backend)
          /\ (key_owner = c /\ ~lease_lock_acquired[c]) =>
                 \/ UNCHANGED backend
                 \/ /\ now' = now + 1 /\ now' >= key_expiry
                    /\ key_owner' = NoToken
          /\ (~lease_lock_acquired[c] /\ lease_lock_acquired'[c]) =>
                 key_owner = NoToken]_vars

\* The demoted A called acquire while its own record was still live, and
\* failed.
C22_OwnAcquireRefusedAfterDemotion ==
    /\ ev.kind = "tick" /\ ev.who = "A" /\ ev.op = "acquire" /\ ev.exc = "none" /\ ~ev.ok
    /\ ~lease_lock_acquired["A"]
    /\ lease_renew_fail_count["A"] = lease_renew_threshold
    /\ key_owner = "A" /\ key_expiry > now

\* ------------------------------------------------------------------------
\* close() by a stale holder.

\* C23: close() by a controller that is Held while the key holds another
\* controller's token attempts the release, which is rejected or fails,
\* raises nothing, goes on to the shutdown and leaves the key (token and
\* expiry) as it was; and a renewal by the controller whose token the key
\* holds fails only by a backend error: otherwise it succeeds and extends
\* the record by the TTL.
C23_StaleCloseSparesOwner ==
    [][\A c \in Controllers :
          /\ (CloseStep(c) /\ Stale(c)) =>
                 /\ ev'.op = "release" /\ ev'.exc \in BackendErrors /\ ~ev'.ok
                 /\ ev'.raised = "none" /\ ev'.shutdown
                 /\ UNCHANGED backend
          /\ (TickStep(c) /\ lease_lock_acquired[c] /\ key_owner = c
                  /\ ev'.op = "renew" /\ ev'.exc # "RedisError") =>
                 /\ ev'.ok /\ lease_lock_acquired'[c]
                 /\ key_owner' = c /\ key_expiry' = now + lease_lock_ttl]_vars

\* The release A attempted in close() was rejected; B is Held and its
\* record stands as B last wrote it.
C23_RejectedReleaseLeftRecord ==
    /\ ev.kind = "close" /\ ev.who = "A" /\ ev.op = "release" /\ ev.exc = "LockError"
    /\ local_token["A"] = NoToken
    /\ lease_lock_acquired["B"] /\ ~closed["B"]
    /\ key_owner = "B" /\ key_expiry = lease_last_acquire_time["B"] + lease_lock_ttl
    /\ key_expiry > now

====
